---------------------------- MODULE Spec2Model ----------------------------
(***************************************************************************)
(* Model of Waybar's sway "workspace_tasks" module                         *)
(*   src/src/modules/sway/workspace_tasks.cpp                              *)
(*   src/include/util/appinfo_provider.hpp                                 *)
(*                                                                         *)
(* A std::string is a sequence of one-character strings, so that prefix    *)
(* tests, substr, replace and tolower are computed as the code computes    *)
(* them.  An AppInfo (Glib::RefPtr<Gio::DesktopAppInfo>) is a sequence of  *)
(* length at most one: <<>> is the null RefPtr, <<d>> refers to            *)
(* descriptor d.                                                           *)
(***************************************************************************)
EXTENDS Integers, Sequences, FiniteSets, TLC

VARIABLES
  registry,        \* the installed .desktop entries, in Gio::DesktopAppInfo::get_all() order
  wm_class_hash_,  \* AppInfoCacheService::wm_class_hash_
  loadPc,          \* position of AppInfoCacheService::load: "idle" or "fill"
  loadAll,         \* load's local `all`
  loadIdx,         \* index of the next element of `all` that load inserts
  preMap,          \* history: wm_class_hash_ as it was when the running load started
  signalsFired,    \* history: number of "changed" signals emitted by the monitor
  signalsPending,  \* "changed" signals emitted whose handler has not run yet
  loadsStarted,    \* history: number of calls of load()
  lastLookup,      \* history: the lookup() made by the last step, <<>> if it made none
  win,             \* the Window constructed last by the resolver driver, with the probes it ran
  swayTree,        \* the compositor's current tree
  payload_,        \* WorkspaceTasksImpl::payload_ (the staged snapshot)
  workspaces_,     \* WorkspaceTasksImpl::workspaces_
  lastBuilt,       \* history: the payload_ the last update() built from, <<>> before
  requests,        \* GET_TREE requests sent and not yet answered by the compositor
  responses,       \* responses (decoded payloads) on their way to the worker
  events,          \* notifications on their way to the worker
  dp,              \* redisplay requests emitted (parent_.dp) and not yet served
  logged,          \* history: the handler that ran last on the worker logged an error
  mutex_,          \* WorkspaceTasksImpl::mutex_: "free", or the thread that holds it
  workerPc,        \* position of the worker thread inside onCmd, "idle" outside
  fgPc,            \* position of the foreground thread inside update or cycleWorkspace
  res,             \* the response onCmd is handling, <<>> outside onCmd
  cyc,             \* cycleWorkspace: the index found and delta, <<>> outside
  outbox,          \* IPC_COMMAND payloads sent and not yet run by the compositor
  call             \* history: the activate call made by the last step, whether its
                   \* command went out and whether it logged an error; <<>> if none

vars == <<registry, wm_class_hash_, loadPc, loadAll, loadIdx, preMap, signalsFired,
          signalsPending, loadsStarted, lastLookup, win, swayTree, payload_,
          workspaces_, lastBuilt, requests, responses, events, dp, logged,
          mutex_, workerPc, fgPc, res, cyc, outbox, call>>

cacheVars == <<wm_class_hash_, loadPc, loadAll, loadIdx, preMap, signalsFired,
               signalsPending, loadsStarted, lastLookup>>
treeVars  == <<payload_, workspaces_, lastBuilt>>
syncVars  == <<swayTree, requests, responses, events, dp, logged>>
lockVars  == <<mutex_, workerPc, fgPc, res, cyc, outbox>>

----------------------------------------------------------------------------
(* Bounds of the model *)

MaxApps == 2     \* entries in the application registry
MaxTop  == 2     \* nodes below an output
MaxKids == 2     \* window nodes below a workspace
MaxNum  == 1     \* workspace numbers are 0..MaxNum
MaxInFlight == 2 \* requests, responses and notifications under way, each
MaxSignals == 2  \* registry change signals
MaxCommands == 1 \* commands and acknowledgements under way
MaxChanges == 2  \* changes of the compositor's tree in the progress specification

----------------------------------------------------------------------------
(* std::string helpers *)

Range(s) == {s[i] : i \in 1..Len(s)}

Min(a, b) == IF a < b THEN a ELSE b

\* std::string::npos
npos == -1

\* std::string::find(char): index (0-based) of the first occurrence, npos if none
Find(s, c) ==
  IF \E i \in 1..Len(s) : s[i] = c
  THEN (CHOOSE i \in 1..Len(s) : s[i] = c /\ \A j \in 1..(i-1) : s[j] # c) - 1
  ELSE npos

\* std::string::substr(pos, count), pos <= size; count is a size_t, so a
\* negative count (npos - n) is a huge one and means "to the end"
SubStr(s, pos, count) ==
  LET n == IF count < 0 THEN Len(s) - pos ELSE Min(count, Len(s) - pos)
  IN  SubSeq(s, pos + 1, pos + n)

\* util starts_with(data, prefix)
StartsWith(s, p) == Len(s) >= Len(p) /\ SubSeq(s, 1, Len(p)) = p

\* std::replace(begin, end, from, to)
Replace(s, from, to) == [i \in 1..Len(s) |-> IF s[i] = from THEN to ELSE s[i]]

\* std::tolower on one char (the letters the model's strings use)
ToLowerChar(c) ==
  CASE c = "F" -> "f"
    [] c = "S" -> "s"
    [] c = "A" -> "a"
    [] OTHER   -> c

\* std::transform(..., std::tolower)
ToLower(s) == [i \in 1..Len(s) |-> ToLowerChar(s[i])]

\* ".desktop"
DesktopSuffix == <<".", "d", "e", "s", "k", "t", "o", "p">>

\* "snap."
SNAP_PREFIX == <<"s", "n", "a", "p", ".">>

\* "BAMF_DESKTOP_FILE_HINT="
ENV_PREFIX == <<"B", "A", "M", "F", "_", "D", "E", "S", "K", "T", "O", "P", "_",
                "F", "I", "L", "E", "_", "H", "I", "N", "T", "=">>

\* "__i3"
I3_PREFIX == <<"_", "_", "i", "3">>

----------------------------------------------------------------------------
(* The application registry (Gio) and the process table (/proc): the        *)
(* collaborators the resolver reads.                                        *)

\* A descriptor: its desktop id and its StartupWMClass
Desc(id, wm) == [id |-> id, wm |-> wm]

D_ff   == Desc(<<"f", "f">> \o DesktopSuffix, <<"f", "f">>)
D_wa   == Desc(<<"w", "a">> \o DesktopSuffix, <<"a", "1">>)
D_snap == Desc(<<"f", "f", "_", "f", "f">> \o DesktopSuffix, <<>>)
D_org  == Desc(<<"o", "r", "g">> \o DesktopSuffix, <<"a", "1">>)

Descs == {D_ff, D_wa, D_snap, D_org}

\* the sequences over S of length at most n
RECURSIVE SeqsUpTo(_, _)
SeqsUpTo(S, n) ==
  IF n = 0 THEN {<<>>} ELSE SeqsUpTo(S, n - 1) \cup [1..n -> S]

\* the sequences over S without repetition, of length at most n
SeqsNoRep(S, n) ==
  {s \in SeqsUpTo(S, n) : \A i, j \in 1..Len(s) : i # j => s[i] # s[j]}

\* the registries the model draws from: the installed entries in enumeration order
Registries == SeqsNoRep(Descs, MaxApps)

\* Gio::DesktopAppInfo::create(desktop_id): the entry with that id, null if none
CreateById(reg, id) ==
  IF \E i \in 1..Len(reg) : reg[i].id = id
  THEN <<reg[CHOOSE i \in 1..Len(reg) : reg[i].id = id]>>
  ELSE <<>>

\* the file a registry entry is installed as
DesktopFilePath(d) == <<"/">> \o d.id

\* Gio::DesktopAppInfo::create_from_filename(path)
CreateFromFilename(reg, path) ==
  IF \E i \in 1..Len(reg) : DesktopFilePath(reg[i]) = path
  THEN <<reg[CHOOSE i \in 1..Len(reg) : DesktopFilePath(reg[i]) = path]>>
  ELSE <<>>

\* /proc/<pid>/environ, /proc/<pid>/attr/current and /proc/<pid>/root/.flatpak-info.
\*   environ, attr: ok = the file can be read
\*   flatpak.kind:  "absent" (not a regular file), "denied" (is_regular_file throws),
\*                  "malformed" (the key file does not load or has no Application.name),
\*                  "ok" (name is Application.name)
Unreadable   == [ok |-> FALSE, data |-> <<>>]
Readable(d)  == [ok |-> TRUE, data |-> d]
Flatpak(k, n) == [kind |-> k, name |-> n]

EnvOther == <<"A", "=", "1">>
AttrUnconfined == <<"u", "n", "c", "o", "n", "f", "i", "n", "e", "d">>
AttrSnapFf == SNAP_PREFIX \o <<"f", "f", ".", "f", "f", " ", "(", "e", "n", "f", "o", "r", "c", "e", ")">>
AttrSnapNoMode == SNAP_PREFIX \o <<"x">>

ProcTable ==
  [pid \in 0..4 |->
     CASE pid = 1 -> [environ |-> Readable(<<EnvOther, ENV_PREFIX \o DesktopFilePath(D_wa)>>),
                      attr    |-> Readable(AttrUnconfined),
                      flatpak |-> Flatpak("absent", <<>>)]
       [] pid = 2 -> [environ |-> Readable(<<EnvOther>>),
                      attr    |-> Readable(AttrSnapFf),
                      flatpak |-> Flatpak("absent", <<>>)]
       [] pid = 3 -> [environ |-> Unreadable,
                      attr    |-> Unreadable,
                      flatpak |-> Flatpak("ok", <<"o", "r", "g">>)]
       [] pid = 4 -> [environ |-> Readable(<<ENV_PREFIX \o <<"/", "x">>, ENV_PREFIX \o DesktopFilePath(D_wa)>>),
                      attr    |-> Readable(AttrSnapNoMode),
                      flatpak |-> Flatpak("malformed", <<>>)]
       [] OTHER   -> [environ |-> Unreadable,
                      attr    |-> Unreadable,
                      flatpak |-> Flatpak("denied", <<>>)]]

Pids == DOMAIN ProcTable

----------------------------------------------------------------------------
(* appinfo_provider.hpp: the three process probes *)

\* get_app_info_from_snap(pid)
get_app_info_from_snap(reg, pid) ==
  LET f == ProcTable[pid].attr
      data == f.data
  IN  IF ~f.ok \/ data = <<>> THEN <<>>
      ELSE IF ~StartsWith(data, SNAP_PREFIX) THEN <<>>
      ELSE LET cut == SubStr(data, Len(SNAP_PREFIX), Find(data, " ") - Len(SNAP_PREFIX))
           IN  CreateById(reg, Replace(cut, ".", "_") \o DesktopSuffix)

\* get_app_info_from_bamf_env(pid): the first variable with the prefix decides
get_app_info_from_bamf_env(reg, pid) ==
  LET f == ProcTable[pid].environ
      hits == {i \in 1..Len(f.data) : StartsWith(f.data[i], ENV_PREFIX)}
  IN  IF ~f.ok \/ hits = {} THEN <<>>
      ELSE LET i == CHOOSE k \in hits : \A j \in hits : k <= j
           IN  CreateFromFilename(reg, SubStr(f.data[i], Len(ENV_PREFIX), npos))

\* get_app_info_from_flatpak(pid)
get_app_info_from_flatpak(reg, pid) ==
  LET f == ProcTable[pid].flatpak
  IN  CASE f.kind = "absent"    -> <<>>   \* is_regular_file is false
        [] f.kind = "denied"    -> <<>>   \* fs error logged, then load_from_file throws Glib::Error
        [] f.kind = "malformed" -> <<>>   \* load_from_file or get_string throws Glib::Error
        [] OTHER                -> CreateById(reg, f.name \o DesktopSuffix)

----------------------------------------------------------------------------
(* Json::Value as the code reads it.  An object is a record; a missing      *)
(* member and an explicit null both read as null.                           *)

JNull == <<"null">>
EmptyObject == [k \in {} |-> <<>>]

isMember(n, k) == k \in DOMAIN n
isNull(n, k) == ~isMember(n, k) \/ n[k] = JNull
asString(n, k) == IF isNull(n, k) THEN <<>> ELSE n[k]
asInt(n, k) == IF isMember(n, k) THEN n[k] ELSE 0
asBool(n, k) == IF isMember(n, k) THEN n[k] ELSE FALSE
member(n, k) == IF isMember(n, k) THEN n[k] ELSE EmptyObject
children(n, k) == IF isMember(n, k) THEN n[k] ELSE <<>>

\* node["type"], compared with string literals only
typeOf(n) == IF isMember(n, "type") THEN n.type ELSE "null"

\* WindowProperties::fromJson
WindowPropertiesFromJson(data) ==
  LET wayland == ~isNull(data, "app_id")
      wp == member(data, "window_properties")
  IN  [title    |-> asString(data, "name"),
       app_id   |-> IF wayland THEN asString(data, "app_id") ELSE asString(wp, "class"),
       instance |-> IF wayland THEN <<>> ELSE asString(wp, "instance"),
       pid      |-> asInt(data, "pid"),
       focused  |-> asBool(data, "focused"),
       urgent   |-> asBool(data, "urgent"),
       visible  |-> asBool(data, "visible")]

\* WorkspaceProperties::fromJson
WorkspacePropertiesFromJson(data) ==
  [title   |-> asString(data, "name"),
   num     |-> asInt(data, "num"),
   focused |-> asBool(data, "focused"),
   urgent  |-> asBool(data, "urgent"),
   visible |-> asBool(data, "visible")]

----------------------------------------------------------------------------
(* AppInfoCacheService: the map and its two operations on whole values *)

EmptyMap == [k \in {} |-> D_ff]

\* AppInfoCacheService::lookup
lookup(map, StartupWMClass) ==
  IF StartupWMClass \in DOMAIN map THEN <<map[StartupWMClass]>> ELSE <<>>

insert_or_assign(map, key, value) ==
  [k \in DOMAIN map \cup {key} |-> IF k = key THEN value ELSE map[k]]

\* std::unordered_map::emplace(key, value): no effect when the key is present
emplace(map, key, value) ==
  IF key \in DOMAIN map THEN map
  ELSE [k \in DOMAIN map \cup {key} |-> IF k = key THEN value ELSE map[k]]

\* one iteration of the loop of AppInfoCacheService::load
LoadStep(map, info) == emplace(map, info.wm, info)

\* the map that load() leaves: clear(), then the loop over `all`
RECURSIVE LoadFrom(_, _, _)
LoadFrom(map, all, i) ==
  IF i > Len(all) THEN map ELSE LoadFrom(LoadStep(map, all[i]), all, i + 1)

LoadResult(all) == LoadFrom(EmptyMap, all, 1)

----------------------------------------------------------------------------
(* Window: identity resolution *)

\* Window::findInfo, with the strategies it consulted, in order
FindInfoDirectFirst(props, map, reg) ==
  LET useCache == props.instance # <<>>
      c1 == IF useCache THEN <<"cache">> ELSE <<>>
      i1 == IF useCache THEN lookup(map, props.instance) ELSE <<>>
      i2 == CreateById(reg, props.app_id \o DesktopSuffix)
      i3 == get_app_info_from_bamf_env(reg, props.pid)
      i4 == get_app_info_from_snap(reg, props.pid)
      i5 == get_app_info_from_flatpak(reg, props.pid)
      i6 == CreateById(reg, ToLower(props.app_id) \o DesktopSuffix)
  IN  IF i2 # <<>> THEN [info |-> i2, consulted |-> <<"direct">>]
      ELSE IF i1 # <<>> THEN [info |-> i1, consulted |-> <<"direct">> \o c1]
      ELSE IF i3 # <<>> THEN [info |-> i3, consulted |-> <<"direct">> \o c1 \o <<"bamf_env">>]
      ELSE IF i4 # <<>> THEN [info |-> i4,
                              consulted |-> <<"direct">> \o c1 \o <<"bamf_env", "snap">>]
      ELSE IF i5 # <<>> THEN [info |-> i5,
                              consulted |-> <<"direct">> \o c1 \o <<"bamf_env", "snap", "flatpak">>]
      ELSE [info |-> i6,
            consulted |-> <<"direct">> \o c1 \o <<"bamf_env", "snap", "flatpak", "lowercase">>]

FindInfoStopsAtFailedProbe(props, map, reg) ==
  LET useCache == props.instance # <<>>
      c1 == IF useCache THEN <<"cache">> ELSE <<>>
      i1 == IF useCache THEN lookup(map, props.instance) ELSE <<>>
      i2 == CreateById(reg, props.app_id \o DesktopSuffix)
      i3 == get_app_info_from_bamf_env(reg, props.pid)
  IN  IF i1 # <<>> THEN [info |-> i1, consulted |-> c1]
      ELSE IF i2 # <<>> THEN [info |-> i2, consulted |-> c1 \o <<"direct">>]
      ELSE [info |-> i3, consulted |-> c1 \o <<"direct", "bamf_env">>]

findInfo(props, map, reg) ==
  LET useCache == props.instance # <<>>
      c1 == IF useCache THEN <<"cache">> ELSE <<>>
      i1 == IF useCache THEN lookup(map, props.instance) ELSE <<>>
      i2 == CreateById(reg, props.app_id \o DesktopSuffix)
      i3 == get_app_info_from_bamf_env(reg, props.pid)
      i4 == get_app_info_from_snap(reg, props.pid)
      i5 == get_app_info_from_flatpak(reg, props.pid)
      i6 == CreateById(reg, ToLower(props.app_id) \o DesktopSuffix)
  IN  IF i1 # <<>> THEN [info |-> i1, consulted |-> c1]
      ELSE IF i2 # <<>> THEN [info |-> i2, consulted |-> c1 \o <<"direct">>]
      ELSE IF i3 # <<>> THEN [info |-> i3, consulted |-> c1 \o <<"direct", "bamf_env">>]
      ELSE IF i4 # <<>> THEN [info |-> i4, consulted |-> c1 \o <<"direct", "bamf_env", "snap">>]
      ELSE IF i5 # <<>> THEN [info |-> i5,
                              consulted |-> c1 \o <<"direct", "bamf_env", "snap", "flatpak">>]
      ELSE [info |-> i6,
            consulted |-> c1 \o <<"direct", "bamf_env", "snap", "flatpak", "lowercase">>]

\* the value of a std::string that was never assigned an identity
NoIdentity == <<"none">>

\* Window::update, lines 206-211: resolved_app_id from the result of findInfo
ResolvedIdNoFallback(info, props) ==
  IF info # <<>> THEN info[1].id ELSE NoIdentity

ResolvedId(info, props) ==
  IF info # <<>> THEN info[1].id ELSE props.app_id \o DesktopSuffix

\* Window::Window(id, props): the constructor runs update()
NewWindow(id, props, map, reg) ==
  [id |-> id,
   props |-> props,
   resolved_app_id |-> ResolvedId(findInfo(props, map, reg).info, props)]

\* Window::getResolvedAppId
getResolvedAppId(w) == w.resolved_app_id

----------------------------------------------------------------------------
(* Workspace *)

\* the style classes Workspace::update leaves on `content`
StyleClasses(props) ==
  (IF props.focused THEN {"focused"} ELSE {})
    \cup (IF ~props.focused /\ props.visible THEN {"visible"} ELSE {})
    \cup (IF props.urgent THEN {"urgent"} ELSE {})

ReducedPropsWithUrgent(props, windows) ==
  [props EXCEPT
     !.focused = @ \/ \E i \in 1..Len(windows) : windows[i].props.focused,
     !.visible = @ \/ \E i \in 1..Len(windows) : windows[i].props.visible,
     !.urgent = @ \/ \E i \in 1..Len(windows) : windows[i].props.urgent]

ReducedPropsFocusedOnly(props, windows) ==
  [props EXCEPT
     !.focused = @ \/ \E i \in 1..Len(windows) : windows[i].props.focused]

\* the loop of Workspace::update: props.focused |= ..., props.visible |= ...
ReducedProps(props, windows) ==
  [props EXCEPT
     !.focused = @ \/ \E i \in 1..Len(windows) : windows[i].props.focused,
     !.visible = @ \/ \E i \in 1..Len(windows) : windows[i].props.visible]

\* Workspace::update
WorkspaceUpdate(w) ==
  LET p == ReducedProps(w.props, w.windows)
  IN  [w EXCEPT !.props = p, !.name = p.title, !.classes = StyleClasses(p)]

\* Workspace::Workspace(id, props, orientation): the constructor runs update()
NewWorkspace(id, props) ==
  WorkspaceUpdate([id |-> id, props |-> props, windows |-> <<>>, content |-> <<>>,
                   name |-> <<>>, classes |-> {}])

RepeatedByAppId(windows) ==
  \E i \in 1..(Len(windows) - 1) :
     windows[i].props.app_id = windows[Len(windows)].props.app_id

\* Workspace::addWindow, line 325: is the identity of the new last window
\* that of an earlier one
Repeated(windows) ==
  \E i \in 1..(Len(windows) - 1) :
     getResolvedAppId(windows[i]) = getResolvedAppId(windows[Len(windows)])

\* Workspace::addWindow: the window is emplaced, its button is packed into
\* `content` unless its identity is repeated
addWindow(w, id, props, map, reg) ==
  LET windows == Append(w.windows, NewWindow(id, props, map, reg))
  IN  [w EXCEPT !.windows = windows,
                !.content = IF ~Repeated(windows) THEN Append(@, id) ELSE @]

----------------------------------------------------------------------------
(* WorkspaceTasksImpl::buildTree and update *)

IsInternalExact(props) == props.title = I3_PREFIX

AttachFirst(ws) == 1

\* line 382: the title starts with "__i3"
IsInternal(props) == SubStr(props.title, 0, 4) = I3_PREFIX

\* line 389: the workspace a window is added to, workspaces_.back()
AttachIndex(ws) == Len(ws)

RECURSIVE buildTree(_, _, _, _), buildNodes(_, _, _, _, _)

\* the loops of lines 401-406 over one child list
buildNodes(list, i, ws, map, reg) ==
  IF i > Len(list) THEN ws
  ELSE buildNodes(list, i + 1, buildTree(list[i], ws, map, reg), map, reg)

\* buildTree(node), as the workspaces_ it leaves when started with ws0
\* (ws is ws0, evaluated once)
buildTree(node, ws0, map, reg) ==
  LET t == typeOf(node)
      id == asInt(node, "id")
      recurse(w) == buildNodes(children(node, "floating_nodes"), 1,
                               buildNodes(children(node, "nodes"), 1, w, map, reg),
                               map, reg)
      body(ws) ==
        IF t = "root" \/ t = "output" THEN recurse(ws)
        ELSE IF t = "workspace" THEN
          LET props == WorkspacePropertiesFromJson(node)
          IN  IF IsInternal(props) THEN ws
              ELSE recurse(Append(ws, NewWorkspace(id, props)))
        ELSE IF t = "con" \/ t = "floating_con" THEN
          IF isMember(node, "app_id") THEN
            IF Len(ws) > 0
            THEN [ws EXCEPT ![AttachIndex(ws)] =
                    addWindow(@, id, WindowPropertiesFromJson(node), map, reg)]
            ELSE ws   \* "Encounted window before workspace"
          ELSE recurse(ws)
        ELSE ws       \* "Unknown type"
  IN  CHOOSE r \in {body(ws) : ws \in {ws0}} : TRUE

\* the orders of the elements idx of ws in which no element is followed by
\* one that compares less than it
RECURSIVE Orders(_, _)
Orders(ws, idx) ==
  IF idx = {} THEN {<<>>}
  ELSE UNION {{<<ws[i]>> \o rest : rest \in Orders(ws, idx \ {i})} :
                i \in {k \in idx : \A j \in idx : ~(ws[j].props.num < ws[k].props.num)}}

\* std::sort with the comparison a.num < b.num, lines 148-150: the result is
\* some permutation ordered by num; the order of equivalent elements is
\* unspecified
SortOutcomes(ws) == Orders(ws, 1..Len(ws))

\* the loop of lines 152-154
UpdateAll(ws) == [i \in 1..Len(ws) |-> WorkspaceUpdate(ws[i])]

NotClearedModel(ws) == ws

\* workspaces_.clear(), line 146
ClearModel(ws) == <<>>

\* lines 147-154: the models buildTree, std::sort and the update loop can
\* leave for a staged payload when workspaces_ is ws0 before buildTree
BuildOutcomes(payload, ws0, map, reg) ==
  UNION {{UpdateAll(s) : s \in SortOutcomes(built)} :
           built \in {buildTree(payload, ws0, map, reg)}}

\* the models update() can leave for a staged payload
UpdateOutcomes(payload, map, reg) == BuildOutcomes(payload, <<>>, map, reg)

----------------------------------------------------------------------------
(* The snapshots the model draws from.  Node ids are assigned in depth-first *)
(* order by Relabel, so that they are unique within a tree.                  *)

Flags(f, v, u) == [focused |-> f, visible |-> v, urgent |-> u]
NoFlags == Flags(FALSE, FALSE, FALSE)
OneHot == {NoFlags, Flags(TRUE, FALSE, FALSE), Flags(FALSE, TRUE, FALSE),
           Flags(FALSE, FALSE, TRUE)}

Node(type, name, kids, floats) ==
  [type |-> type, id |-> 0, name |-> name, nodes |-> kids, floating_nodes |-> floats]

RootNode(kids) == Node("root", <<"r">>, kids, <<>>)
OutputNode(kids) == Node("output", <<"o">>, kids, <<>>)
WsNode(title, num, fl, kids, floats) ==
  Node("workspace", title, kids, floats) @@ fl @@ [num |-> num]
\* a native Wayland window: app_id is a string
WinNode(type, app_id, pid, fl) ==
  Node(type, <<"t">>, <<>>, <<>>) @@ fl @@ [app_id |-> app_id, pid |-> pid]
\* an XWayland window: app_id is null, window_properties holds class and instance
XWinNode(type, class, instance, pid, fl) ==
  Node(type, <<"t">>, <<>>, <<>>) @@ fl
    @@ [app_id |-> JNull, pid |-> pid,
        window_properties |-> [class |-> class, instance |-> instance]]
\* a split container: a con without the app_id member
ConNode(kids) == Node("con", <<"c">>, kids, <<>>)

RECURSIVE RelabelNode(_, _), RelabelSeq(_, _)
RelabelSeq(list, next) ==
  IF list = <<>> THEN [s |-> <<>>, next |-> next]
  ELSE LET h == RelabelNode(Head(list), next)
           t == RelabelSeq(Tail(list), h.next)
       IN  [s |-> <<h.node>> \o t.s, next |-> t.next]
RelabelNode(n, next) ==
  LET a == RelabelSeq(n.nodes, next + 1)
      b == RelabelSeq(n.floating_nodes, a.next)
  IN  [node |-> [n EXCEPT !.id = next, !.nodes = a.s, !.floating_nodes = b.s],
       next |-> b.next]
Relabel(n) == RelabelNode(n, 1).node

S_a    == <<"a">>
S_b    == <<"b">>
S_ff   == <<"f", "f">>
S_Ff   == <<"F", "f">>
S_sl   == <<"s", "l">>
S_a1   == <<"a", "1">>
S_i3s  == I3_PREFIX \o <<"_", "s">>
S_i    == <<"_", "_", "i">>

\* empty workspaces in every order of num, internal ones among them
SortWs == {WsNode(t, n, NoFlags, <<>>, <<>>) : t \in {S_a, S_i3s}, n \in 0..MaxNum}
FamSort == {Relabel(RootNode(<<OutputNode(s)>>)) : s \in SeqsUpTo(SortWs, MaxTop)}

\* one workspace with every choice of reported flags and of windows
KidWins == {WinNode("con", a, 0, fl) : a \in {S_ff, S_Ff, S_sl}, fl \in OneHot}
FloatWins == {WinNode("floating_con", S_Ff, 0, Flags(TRUE, TRUE, TRUE))}
FamKids ==
  {Relabel(RootNode(<<OutputNode(<<WsNode(S_a, 0, fl, kids, floats)>>)>>)) :
     fl \in OneHot, kids \in SeqsUpTo(KidWins, MaxKids), floats \in SeqsUpTo(FloatWins, 1)}

\* the shapes of a tree: nested containers, an internal workspace with windows,
\* a window outside every workspace, an unknown node, a workspace inside a
\* workspace, an XWayland window; each below an output of its own
ShapeItems ==
  { WsNode(S_a, 0, NoFlags,
           <<ConNode(<<WinNode("con", S_sl, 0, NoFlags),
                       WinNode("con", S_ff, 2, Flags(TRUE, FALSE, FALSE))>>)>>, <<>>),
    WsNode(S_i3s, 0, NoFlags,
           <<WinNode("con", S_sl, 0, NoFlags)>>,
           <<WinNode("floating_con", S_ff, 0, Flags(FALSE, TRUE, FALSE))>>),
    WinNode("con", S_ff, 0, Flags(FALSE, TRUE, FALSE)),
    Node("dockarea", <<"d">>,
         <<WsNode(S_a, 1, NoFlags, <<WinNode("con", S_sl, 0, NoFlags)>>, <<>>)>>, <<>>),
    WsNode(S_a, 1, NoFlags,
           <<WsNode(S_b, 0, NoFlags, <<WinNode("con", S_sl, 0, NoFlags)>>, <<>>),
             WinNode("con", S_ff, 0, NoFlags)>>, <<>>),
    WsNode(S_i, 1, Flags(TRUE, FALSE, FALSE),
           <<XWinNode("con", S_ff, S_a1, 1, NoFlags)>>, <<>>) }
FamShape ==
  {Relabel(RootNode([i \in 1..Len(s) |-> OutputNode(<<s[i]>>)])) :
     s \in SeqsUpTo(ShapeItems, MaxTop)}

Trees == FamSort \cup FamKids \cup FamShape

\* the registry under which the snapshots are built
TreeRegistry == <<D_ff, D_wa>>

----------------------------------------------------------------------------
(* Initial states: the state after the constructors have run *)

\* AppInfoCacheService(): load() has run once over the registry
InitCache(reg) ==
  /\ registry = reg
  /\ wm_class_hash_ = LoadResult(reg)
  /\ loadPc = "idle"
  /\ loadAll = reg
  /\ loadIdx = Len(reg) + 1
  /\ preMap = EmptyMap
  /\ signalsFired = 0
  /\ signalsPending = 0
  /\ loadsStarted = 1
  /\ lastLookup = <<>>

\* WorkspaceTasksImpl(): payload_ is a null Json::Value, the model is empty and
\* getTree() has sent the first request (sendOk) or logged its failure
InitTasks(tree, sendOk) ==
  /\ swayTree = tree
  /\ payload_ = EmptyObject
  /\ workspaces_ = <<>>
  /\ lastBuilt = <<>>
  /\ requests = IF sendOk THEN 1 ELSE 0
  /\ responses = <<>>
  /\ events = 0
  /\ dp = 0
  /\ logged = ~sendOk
  /\ mutex_ = "free"
  /\ workerPc = "idle"
  /\ fgPc = "idle"
  /\ res = <<>>
  /\ cyc = <<>>
  /\ outbox = <<>>
  /\ call = <<>>

----------------------------------------------------------------------------
(* The application registry and AppInfoCacheService::load, step by step *)

NotCleared(map) == map

\* wm_class_hash_.clear(), line 175
Cleared(map) == EmptyMap

\* reg with the element at position i taken out
Without(reg, i) == SubSeq(reg, 1, i - 1) \o SubSeq(reg, i + 1, Len(reg))

\* one entry is installed into, or removed from, the store
OneEdit(old, new) ==
  \/ \E i \in 1..Len(new) : Without(new, i) = old
  \/ \E i \in 1..Len(old) : Without(old, i) = new

\* the store changes and AppInfoMonitor emits changed_signal
RegistryChange ==
  /\ signalsFired < MaxSignals
  /\ \E reg \in Registries : OneEdit(registry, reg) /\ registry' = reg
  /\ signalsFired' = signalsFired + 1
  /\ signalsPending' = signalsPending + 1
  /\ UNCHANGED <<wm_class_hash_, loadPc, loadAll, loadIdx, preMap, loadsStarted, win>>
  /\ lastLookup' = <<>>
  /\ UNCHANGED <<treeVars, syncVars>>
  /\ UNCHANGED lockVars /\ call' = <<>>

\* load(), lines 175-176: clear() and get_all()
LoadStart ==
  /\ loadPc = "idle"
  /\ signalsPending > 0
  /\ signalsPending' = signalsPending - 1
  /\ loadsStarted' = loadsStarted + 1
  /\ preMap' = wm_class_hash_
  /\ wm_class_hash_' = Cleared(wm_class_hash_)
  /\ loadAll' = registry
  /\ loadIdx' = 1
  /\ loadPc' = "fill"
  /\ UNCHANGED <<registry, signalsFired, win>>
  /\ lastLookup' = <<>>
  /\ UNCHANGED <<treeVars, syncVars>>
  /\ UNCHANGED lockVars /\ call' = <<>>

\* load(), lines 177-180: one iteration of the loop
LoadInsert ==
  /\ loadPc = "fill"
  /\ loadIdx <= Len(loadAll)
  /\ wm_class_hash_' = LoadStep(wm_class_hash_, loadAll[loadIdx])
  /\ loadIdx' = loadIdx + 1
  /\ UNCHANGED <<registry, loadPc, loadAll, preMap, signalsFired, signalsPending,
                 loadsStarted, win>>
  /\ lastLookup' = <<>>
  /\ UNCHANGED <<treeVars, syncVars>>
  /\ UNCHANGED lockVars /\ call' = <<>>

\* load() returns
LoadDone ==
  /\ loadPc = "fill"
  /\ loadIdx > Len(loadAll)
  /\ loadPc' = "idle"
  /\ UNCHANGED <<registry, wm_class_hash_, loadAll, loadIdx, preMap, signalsFired,
                 signalsPending, loadsStarted, win>>
  /\ lastLookup' = <<>>
  /\ UNCHANGED <<treeVars, syncVars>>
  /\ UNCHANGED lockVars /\ call' = <<>>

\* the keys looked up
Keys == {S_a1, S_ff, <<>>}

\* AppInfoCacheService::lookup(key), called at any moment; nothing orders it
\* with load().  The record keeps what the maps before and after the running
\* (or last) load answer for the key.
Lookup ==
  /\ \E key \in Keys :
       lastLookup' = <<[key |-> key,
                        result |-> lookup(wm_class_hash_, key),
                        during |-> loadPc = "fill",
                        before |-> lookup(IF loadPc = "fill" THEN preMap ELSE wm_class_hash_, key),
                        after |-> lookup(LoadResult(loadAll), key)]>>
  /\ UNCHANGED <<registry, wm_class_hash_, loadPc, loadAll, loadIdx, preMap,
                 signalsFired, signalsPending, loadsStarted, win>>
  /\ UNCHANGED <<treeVars, syncVars>>
  /\ UNCHANGED lockVars /\ call' = <<>>

----------------------------------------------------------------------------
(* Window construction on its own: the resolver applied to one window node *)

\* the window nodes the resolver is applied to
ResolveNodes ==
  {WinNode("con", a, pid, NoFlags) : a \in {<<>>, S_ff, S_Ff, S_sl}, pid \in Pids}
    \cup {XWinNode("con", c, i, pid, NoFlags) :
            c \in {<<>>, S_ff, S_Ff}, i \in {<<>>, S_a1}, pid \in Pids}

\* Window(id, WindowProperties::fromJson(node))
Construct ==
  /\ \E node \in ResolveNodes :
       LET props == WindowPropertiesFromJson(node)
       IN  win' = <<[window |-> NewWindow(asInt(node, "id"), props, wm_class_hash_, registry),
                     info |-> findInfo(props, wm_class_hash_, registry).info,
                     consulted |-> findInfo(props, wm_class_hash_, registry).consulted]>>
  /\ UNCHANGED <<cacheVars, registry>>
  /\ UNCHANGED <<treeVars, syncVars>>
  /\ UNCHANGED lockVars /\ call' = <<>>

----------------------------------------------------------------------------
(* The compositor channel (Ipc) with the worker, and the foreground thread *)

\* work under way: what bounds the notifications the compositor may add
Backlog == events + requests + Len(responses) + dp

\* the compositor's state changes and it notifies the subscriber
Notify(trees) ==
  /\ Backlog < MaxInFlight
  /\ swayTree' \in trees
  /\ events' = events + 1
  /\ UNCHANGED <<requests, responses, dp, logged>>
  /\ UNCHANGED <<treeVars, cacheVars, registry, win>>
  /\ UNCHANGED lockVars /\ call' = <<>>

OnEventNoRequest ==
  /\ workerPc = "idle"
  /\ events > 0
  /\ events' = events - 1
  /\ logged' = FALSE
  /\ UNCHANGED <<swayTree, requests, responses, dp>>
  /\ UNCHANGED <<treeVars, cacheVars, registry, win>>
  /\ UNCHANGED lockVars /\ call' = <<>>

\* onEvent: getTree(), and ipc_.sendCmd(IPC_GET_TREE) succeeds
OnEvent ==
  /\ workerPc = "idle"
  /\ events > 0
  /\ events' = events - 1
  /\ requests' = requests + 1
  /\ logged' = FALSE
  /\ UNCHANGED <<swayTree, responses, dp>>
  /\ UNCHANGED <<treeVars, cacheVars, registry, win>>
  /\ UNCHANGED lockVars /\ call' = <<>>

\* onEvent: getTree(), and ipc_.sendCmd throws: the error is logged
OnEventSendFails ==
  /\ workerPc = "idle"
  /\ events > 0
  /\ events' = events - 1
  /\ logged' = TRUE
  /\ UNCHANGED <<swayTree, requests, responses, dp>>
  /\ UNCHANGED <<treeVars, cacheVars, registry, win>>
  /\ UNCHANGED lockVars /\ call' = <<>>

\* the compositor answers a GET_TREE request with its current tree
Reply ==
  /\ requests > 0
  /\ requests' = requests - 1
  /\ responses' = Append(responses, [type |-> "GET_TREE", ok |-> TRUE, payload |-> swayTree])
  /\ UNCHANGED <<swayTree, events, dp, logged>>
  /\ UNCHANGED <<treeVars, cacheVars, registry, win>>
  /\ UNCHANGED lockVars /\ call' = <<>>

\* ... or with a payload the parser rejects
ReplyGarbled ==
  /\ requests > 0
  /\ requests' = requests - 1
  /\ responses' = Append(responses, [type |-> "GET_TREE", ok |-> FALSE, payload |-> EmptyObject])
  /\ UNCHANGED <<swayTree, events, dp, logged>>
  /\ UNCHANGED <<treeVars, cacheVars, registry, win>>
  /\ UNCHANGED lockVars /\ call' = <<>>

\* onCmd(res), res.type == IPC_GET_TREE, parse succeeds: the payload is staged
\* under the mutex and a redisplay is requested
OnCmd ==
  /\ workerPc = "idle"
  /\ responses # <<>>
  /\ Head(responses).type = "GET_TREE"
  /\ Head(responses).ok
  /\ responses' = Tail(responses)
  /\ payload_' = Head(responses).payload
  /\ dp' = dp + 1
  /\ logged' = FALSE
  /\ UNCHANGED <<swayTree, requests, events>>
  /\ UNCHANGED <<workspaces_, lastBuilt, cacheVars, registry, win>>
  /\ UNCHANGED lockVars /\ call' = <<>>

\* onCmd(res), parse throws: logged, return before dp.emit()
OnCmdParseFails ==
  /\ workerPc = "idle"
  /\ responses # <<>>
  /\ Head(responses).type = "GET_TREE"
  /\ ~Head(responses).ok
  /\ responses' = Tail(responses)
  /\ logged' = TRUE
  /\ UNCHANGED <<swayTree, requests, events, dp>>
  /\ UNCHANGED <<treeVars, cacheVars, registry, win>>
  /\ UNCHANGED lockVars /\ call' = <<>>

\* update() on the foreground thread, run for a redisplay request or on its own
Update ==
  /\ fgPc = "idle"
  /\ workspaces_' \in UpdateOutcomes(payload_, wm_class_hash_, registry)
  /\ lastBuilt' = <<payload_>>
  /\ dp' = IF dp > 0 THEN dp - 1 ELSE 0
  /\ UNCHANGED <<swayTree, requests, responses, events, logged>>
  /\ UNCHANGED <<payload_, cacheVars, registry, win>>
  /\ UNCHANGED lockVars /\ call' = <<>>

----------------------------------------------------------------------------
(* Commands to the compositor: activateWorkspace, activateWindow, cycleWorkspace *)

Digit(d) == <<"0", "1", "2", "3", "4", "5", "6", "7", "8", "9">>[d + 1]

\* fmt::format("{}", n) for an int: decimal digits, '-' before a negative value
RECURSIVE ItoA(_)
ItoA(n) ==
  IF n < 0 THEN <<"-">> \o ItoA(0 - n)
  ELSE IF n < 10 THEN <<Digit(n)>>
  ELSE ItoA(n \div 10) \o <<Digit(n % 10)>>

WS_CMD == <<"w", "o", "r", "k", "s", "p", "a", "c", "e", " ",
            "n", "u", "m", "b", "e", "r", " ">>
CON_CMD_PRE == <<"[", "c", "o", "n", "_", "i", "d", "=">>
CON_CMD_POST == <<"]", " ", "f", "o", "c", "u", "s">>

WorkspaceCommandByName(num) == <<"w", "o", "r", "k", "s", "p", "a", "c", "e", " ">> \o ItoA(num)

\* line 412: fmt::format("workspace number {}", num)
WorkspaceCommand(num) == WS_CMD \o ItoA(num)

\* line 421: fmt::format("[con_id={}] focus", id)
WindowCommand(id) == CON_CMD_PRE \o ItoA(id) \o CON_CMD_POST

\* ipc_.sendCmd(IPC_COMMAND, payload) inside try/catch, lines 411-415 and
\* 420-424: the payload goes out, or sendCmd throws and the error is logged
SendCommand(op, arg, payload, sendOk) ==
  /\ outbox' = IF sendOk THEN Append(outbox, payload) ELSE outbox
  /\ call' = <<[op |-> op, arg |-> arg, sent |-> sendOk, logged |-> ~sendOk]>>

activateWorkspace(num, sendOk) ==
  SendCommand("activateWorkspace", num, WorkspaceCommand(num), sendOk)

activateWindow(id, sendOk) ==
  SendCommand("activateWindow", id, WindowCommand(id), sendOk)

\* width of size_t and ssize_t
SizeBits == 64

RECURSIVE Pow2Mod(_, _)
\* 2^k modulo n
Pow2Mod(k, n) == IF k = 0 THEN 1 % n ELSE (2 * Pow2Mod(k - 1, n)) % n

\* line 175: (i + delta) % workspaces_.size().  i + delta is an ssize_t and
\* size() a size_t, so the sum is converted to size_t (modulo 2^SizeBits)
\* before the remainder is taken
CycleIndex(i, delta, n) ==
  LET x == i + delta
  IN  IF x >= 0 THEN x % n ELSE (Pow2Mod(SizeBits, n) + (x % n)) % n

\* the commands the user has caused and the compositor has not dealt with:
\* what bounds the clicks and scrolls the user may add
UserBacklog == Len(outbox) + Len(responses)

\* the press handler of a workspace button, lines 158-165
ClickWorkspace ==
  /\ fgPc = "idle"
  /\ UserBacklog < MaxCommands
  /\ \E i \in 1..Len(workspaces_), sendOk \in BOOLEAN :
       activateWorkspace(workspaces_[i].props.num, sendOk)
  /\ UNCHANGED <<mutex_, workerPc, fgPc, res, cyc>>
  /\ UNCHANGED <<swayTree, requests, responses, events, dp, logged>>
  /\ UNCHANGED <<treeVars, cacheVars, registry, win>>

\* the press handler of a packed window button, lines 331-339
ClickWindow ==
  /\ fgPc = "idle"
  /\ UserBacklog < MaxCommands
  /\ \E i \in 1..Len(workspaces_), sendOk \in BOOLEAN :
       \E k \in 1..Len(workspaces_[i].content) :
          activateWindow(workspaces_[i].content[k], sendOk)
  /\ UNCHANGED <<mutex_, workerPc, fgPc, res, cyc>>
  /\ UNCHANGED <<swayTree, requests, responses, events, dp, logged>>
  /\ UNCHANGED <<treeVars, cacheVars, registry, win>>

\* the indices (from 0) of the focused workspaces
FocusedAt == {i \in 0..(Len(workspaces_) - 1) : workspaces_[i + 1].props.focused}

\* handleScroll -> cycleWorkspace(delta), lines 171-173: std::find_if; no
\* workspace is focused and the call returns
CycleNone ==
  /\ fgPc = "idle"
  /\ FocusedAt = {}
  /\ UNCHANGED <<lockVars, syncVars, treeVars, cacheVars, registry, win>>
  /\ call' = <<>>

\* cycleWorkspace(delta), lines 171-174: the first focused workspace is found
CycleFind ==
  /\ fgPc = "idle"
  /\ UserBacklog < MaxCommands
  /\ FocusedAt # {}
  /\ \E delta \in {1, -1} :
       cyc' = <<[i |-> CHOOSE i \in FocusedAt : \A j \in FocusedAt : i <= j,
                 delta |-> delta]>>
  /\ fgPc' = "cycle"
  /\ call' = <<>>
  /\ UNCHANGED <<mutex_, workerPc, res, outbox>>
  /\ UNCHANGED <<syncVars, treeVars, cacheVars, registry, win>>

\* cycleWorkspace(delta), lines 175-176: the target is read from workspaces_
\* and activated
CycleActivate ==
  /\ fgPc = "cycle"
  /\ \E sendOk \in BOOLEAN :
       LET target == workspaces_[CycleIndex(cyc[1].i, cyc[1].delta, Len(workspaces_)) + 1]
       IN  activateWorkspace(target.props.num, sendOk)
  /\ fgPc' = "idle"
  /\ cyc' = <<>>
  /\ UNCHANGED <<mutex_, workerPc, res>>
  /\ UNCHANGED <<swayTree, requests, responses, events, dp, logged>>
  /\ UNCHANGED <<treeVars, cacheVars, registry, win>>

\* the compositor runs a command and acknowledges it
RunCommand ==
  /\ outbox # <<>>
  /\ outbox' = Tail(outbox)
  /\ responses' = Append(responses, [type |-> "COMMAND", ok |-> TRUE, payload |-> EmptyObject])
  /\ call' = <<>>
  /\ UNCHANGED <<mutex_, workerPc, fgPc, res, cyc>>
  /\ UNCHANGED <<swayTree, requests, events, dp, logged>>
  /\ UNCHANGED <<treeVars, cacheVars, registry, win>>

----------------------------------------------------------------------------
(* onCmd and update step by step, with mutex_ *)

LockAlways(m) == TRUE

\* std::lock_guard<std::mutex> lock{mutex_} returns once the mutex is free
CanLock(m) == m = "free"

\* onCmd(res), line 362: a response of another type is ignored
OnCmdOther ==
  /\ workerPc = "idle"
  /\ responses # <<>>
  /\ Head(responses).type # "GET_TREE"
  /\ responses' = Tail(responses)
  /\ call' = <<>>
  /\ UNCHANGED <<swayTree, requests, events, dp, logged>>
  /\ UNCHANGED <<lockVars, treeVars, cacheVars, registry, win>>

\* onCmd(res), line 362: res.type == IPC_GET_TREE
OnCmdEnter ==
  /\ workerPc = "idle"
  /\ responses # <<>>
  /\ Head(responses).type = "GET_TREE"
  /\ responses' = Tail(responses)
  /\ res' = <<Head(responses)>>
  /\ workerPc' = "lock"
  /\ call' = <<>>
  /\ UNCHANGED <<mutex_, fgPc, cyc, outbox>>
  /\ UNCHANGED <<swayTree, requests, events, dp, logged>>
  /\ UNCHANGED <<treeVars, cacheVars, registry, win>>

\* onCmd, line 364: the lock is taken
OnCmdLock ==
  /\ workerPc = "lock"
  /\ CanLock(mutex_)
  /\ mutex_' = "worker"
  /\ workerPc' = "parse"
  /\ call' = <<>>
  /\ UNCHANGED <<fgPc, res, cyc, outbox>>
  /\ UNCHANGED <<syncVars, treeVars, cacheVars, registry, win>>

\* onCmd, line 365: the payload is parsed and assigned to payload_; the lock
\* is released at the end of the try block
OnCmdStore ==
  /\ workerPc = "parse"
  /\ res[1].ok
  /\ payload_' = res[1].payload
  /\ mutex_' = "free"
  /\ workerPc' = "emit"
  /\ logged' = FALSE
  /\ call' = <<>>
  /\ UNCHANGED <<fgPc, res, cyc, outbox>>
  /\ UNCHANGED <<swayTree, requests, responses, events, dp>>
  /\ UNCHANGED <<workspaces_, lastBuilt, cacheVars, registry, win>>

OnCmdParseThrowsEmits ==
  /\ workerPc = "parse"
  /\ ~res[1].ok
  /\ mutex_' = "free"
  /\ workerPc' = "emit"
  /\ logged' = TRUE
  /\ call' = <<>>
  /\ UNCHANGED <<fgPc, res, cyc, outbox>>
  /\ UNCHANGED <<swayTree, requests, responses, events, dp>>
  /\ UNCHANGED <<treeVars, cacheVars, registry, win>>

\* onCmd, lines 365-369: parse throws; the lock is released by unwinding, the
\* error is logged and onCmd returns
OnCmdParseThrows ==
  /\ workerPc = "parse"
  /\ ~res[1].ok
  /\ mutex_' = "free"
  /\ workerPc' = "idle"
  /\ res' = <<>>
  /\ logged' = TRUE
  /\ call' = <<>>
  /\ UNCHANGED <<fgPc, cyc, outbox>>
  /\ UNCHANGED <<swayTree, requests, responses, events, dp>>
  /\ UNCHANGED <<treeVars, cacheVars, registry, win>>

\* onCmd, line 370: parent_.dp.emit()
OnCmdEmit ==
  /\ workerPc = "emit"
  /\ dp' = dp + 1
  /\ workerPc' = "idle"
  /\ res' = <<>>
  /\ call' = <<>>
  /\ UNCHANGED <<mutex_, fgPc, cyc, outbox>>
  /\ UNCHANGED <<swayTree, requests, responses, events, logged>>
  /\ UNCHANGED <<treeVars, cacheVars, registry, win>>

\* update(), lines 143-146: the lock is taken and workspaces_ cleared
UpdateLock ==
  /\ fgPc = "idle"
  /\ CanLock(mutex_)
  /\ mutex_' = "fg"
  /\ fgPc' = "update"
  /\ workspaces_' = ClearModel(workspaces_)
  /\ lastBuilt' = <<payload_>>
  /\ dp' = IF dp > 0 THEN dp - 1 ELSE 0
  /\ call' = <<>>
  /\ UNCHANGED <<workerPc, res, cyc, outbox>>
  /\ UNCHANGED <<swayTree, requests, responses, events, logged>>
  /\ UNCHANGED <<payload_, cacheVars, registry, win>>

\* update(), lines 147-168: the model is built from payload_, sorted and
\* updated, and the lock released
UpdateBuild ==
  /\ fgPc = "update"
  /\ workspaces_' \in BuildOutcomes(payload_, workspaces_, wm_class_hash_, registry)
  /\ mutex_' = "free"
  /\ fgPc' = "idle"
  /\ call' = <<>>
  /\ UNCHANGED <<workerPc, res, cyc, outbox>>
  /\ UNCHANGED <<syncVars, payload_, lastBuilt, cacheVars, registry, win>>

----------------------------------------------------------------------------
(* Specifications *)

\* one compositor tree, requested, staged and built
Init ==
  /\ \E tree \in Trees : InitTasks(tree, TRUE)
  /\ InitCache(TreeRegistry)
  /\ win = <<>>

Next == Reply \/ OnCmd \/ Update

Spec == Init /\ [][Next]_vars

\* the resolver over every registry and window node
InitResolve ==
  /\ \E reg \in Registries : InitCache(reg)
  /\ InitTasks(EmptyObject, TRUE)
  /\ win = <<>>

NextResolve == Construct

SpecResolve == InitResolve /\ [][NextResolve]_vars

\* the cache under registry changes, with lookups at any moment
InitCacheSpec ==
  /\ \E reg \in Registries : InitCache(reg)
  /\ InitTasks(EmptyObject, TRUE)
  /\ win = <<>>

NextCache == RegistryChange \/ LoadStart \/ LoadInsert \/ LoadDone \/ Lookup

SpecCache == InitCacheSpec /\ [][NextCache]_vars

\* the controller: notifications, requests, responses and rebuilds
SyncTrees ==
  { Relabel(RootNode(<<OutputNode(<<WsNode(S_a, 1, Flags(TRUE, TRUE, FALSE), <<>>, <<>>)>>)>>)),
    Relabel(RootNode(<<OutputNode(<<WsNode(S_b, 0, NoFlags,
                                           <<WinNode("con", S_ff, 0, Flags(TRUE, TRUE, FALSE))>>,
                                           <<>>)>>)>>)) }

InitSync ==
  /\ \E tree \in SyncTrees, sendOk \in BOOLEAN : InitTasks(tree, sendOk)
  /\ InitCache(TreeRegistry)
  /\ win = <<>>

NextSync ==
  \/ Notify(SyncTrees)
  \/ OnEvent
  \/ OnEventSendFails
  \/ Reply
  \/ ReplyGarbled
  \/ OnCmd
  \/ OnCmdParseFails
  \/ Update

SpecSync == InitSync /\ [][NextSync]_vars

\* the controller step by step: the worker and the foreground thread under
\* mutex_, with clicks and scrolls
LockTrees ==
  { Relabel(RootNode(<<OutputNode(<<WsNode(S_b, -1, NoFlags,
                                           <<WinNode("con", S_ff, 0, Flags(TRUE, TRUE, FALSE))>>,
                                           <<>>)>>)>>)),
    Relabel(RootNode(<<OutputNode(<<WsNode(S_a, 0, NoFlags,
                                           <<WinNode("con", S_ff, 0, Flags(TRUE, FALSE, TRUE))>>,
                                           <<>>),
                                    WsNode(S_b, 1, NoFlags, <<>>, <<>>)>>),
                       OutputNode(<<WsNode(S_a, 2, NoFlags, <<>>, <<>>)>>)>>)) }

InitLock ==
  /\ \E tree \in LockTrees, sendOk \in BOOLEAN : InitTasks(tree, sendOk)
  /\ InitCache(TreeRegistry)
  /\ win = <<>>

NextLock ==
  \/ Notify(LockTrees)
  \/ OnEvent
  \/ OnEventSendFails
  \/ Reply
  \/ ReplyGarbled
  \/ RunCommand
  \/ OnCmdOther
  \/ OnCmdEnter
  \/ OnCmdLock
  \/ OnCmdStore
  \/ OnCmdParseThrows
  \/ OnCmdEmit
  \/ UpdateLock
  \/ UpdateBuild
  \/ ClickWorkspace
  \/ ClickWindow
  \/ CycleNone
  \/ CycleFind
  \/ CycleActivate

SpecLock == InitLock /\ [][NextLock]_vars

\* progress of the controller: the compositor's tree changes MaxChanges
\* times, nothing fails, and every thread that can run does run
LiveTree(i) == Relabel(RootNode(<<OutputNode(<<WsNode(S_a, i, NoFlags, <<>>, <<>>)>>)>>))

\* the number of changes a tree of the progress specification was made by;
\* -1 for the payload before the first response
Version(tree) ==
  IF \E i \in 0..MaxChanges : LiveTree(i) = tree
  THEN CHOOSE i \in 0..MaxChanges : LiveTree(i) = tree
  ELSE -1

LaterTrees == {LiveTree(i) : i \in (Version(swayTree) + 1)..MaxChanges}

\* update() run by the dispatcher for a redisplay request
UpdateOnRequest == dp > 0 /\ Update

InitLive ==
  /\ InitTasks(LiveTree(0), TRUE)
  /\ InitCache(TreeRegistry)
  /\ win = <<>>

NextLive == Notify(LaterTrees) \/ OnEvent \/ Reply \/ OnCmd \/ Update

SpecLive ==
  /\ InitLive /\ [][NextLive]_vars
  /\ WF_vars(OnEvent) /\ WF_vars(Reply) /\ WF_vars(OnCmd) /\ WF_vars(UpdateOnRequest)

----------------------------------------------------------------------------
(* Reading a snapshot tree directly, for the properties below *)

RECURSIVE PreorderIds(_), PreorderList(_, _)
PreorderList(list, i) ==
  IF i > Len(list) THEN <<>> ELSE PreorderIds(list[i]) \o PreorderList(list, i + 1)
\* the ids of the nodes of a tree in depth-first order, nodes before floating_nodes
PreorderIds(n) ==
  IF ~isMember(n, "id") THEN <<>>
  ELSE <<n.id>> \o PreorderList(n.nodes, 1) \o PreorderList(n.floating_nodes, 1)

\* the position of node id in a depth-first order of ids
Pos(order, id) == CHOOSE i \in 1..Len(order) : order[i] = id

HasI3Prefix(title) == Len(title) >= 4 /\ \A i \in 1..4 : title[i] = I3_PREFIX[i]

IsWindowNode(n) == n.type \in {"con", "floating_con"} /\ "app_id" \in DOMAIN n
IsInternalWsNode(n) == n.type = "workspace" /\ HasI3Prefix(n.name)

\* every node of a tree with its nearest enclosing workspace-type ancestor (anc,
\* 0 if none), whether that ancestor is internal, and whether any enclosing
\* workspace is internal
RECURSIVE NodeEntries(_, _, _, _), ListEntries(_, _, _, _, _)
ListEntries(list, i, anc, ancInternal, underInternal) ==
  IF i > Len(list) THEN {}
  ELSE NodeEntries(list[i], anc, ancInternal, underInternal)
         \cup ListEntries(list, i + 1, anc, ancInternal, underInternal)
NodeEntries(n, anc, ancInternal, underInternal) ==
  IF ~isMember(n, "id") THEN {}
  ELSE LET isWs == n.type = "workspace"
           a == IF isWs THEN n.id ELSE anc
           ai == IF isWs THEN IsInternalWsNode(n) ELSE ancInternal
           ui == underInternal \/ IsInternalWsNode(n)
       IN  {[node |-> n, anc |-> anc, ancInternal |-> ancInternal,
             underInternal |-> underInternal]}
             \cup ListEntries(n.nodes, 1, a, ai, ui)
             \cup ListEntries(n.floating_nodes, 1, a, ai, ui)

Entries(tree) == NodeEntries(tree, 0, FALSE, FALSE)
WindowEntries(tree) == {e \in Entries(tree) : IsWindowNode(e.node)}
NodeOf(tree, id) == (CHOOSE e \in Entries(tree) : e.node.id = id).node

\* the model
ModelIdx == 1..Len(workspaces_)
WindowIds(w) == {w.windows[i].id : i \in 1..Len(w.windows)}
\* the workspaces of the model that hold window id
Owners(id) == {i \in ModelIdx : id \in WindowIds(workspaces_[i])}
Rebuilt == lastBuilt # <<>>
Snapshot == lastBuilt[1]

----------------------------------------------------------------------------
(* Properties of the tree model: specification Spec *)

\* C1: after every rebuild the workspaces are ordered by num ascending, and
\* workspaces with equal num keep the order in which the depth-first
\* traversal of the snapshot met them (stable ordering).
C1_SortedStable ==
  Rebuilt =>
    LET order == PreorderIds(Snapshot)
    IN  \A i, j \in ModelIdx :
           i < j =>
             /\ workspaces_[i].props.num <= workspaces_[j].props.num
             /\ workspaces_[i].props.num = workspaces_[j].props.num
                  => Pos(order, workspaces_[i].id) < Pos(order, workspaces_[j].id)

\* C2 (as claimed): every window of the model is in exactly one workspace, the
\* one built from its nearest enclosing workspace-type ancestor; a window node
\* with no workspace ancestor, or whose nearest workspace ancestor is excluded,
\* is in no workspace.
C2_NearestAncestor ==
  Rebuilt =>
    \A e \in WindowEntries(Snapshot) :
       LET o == Owners(e.node.id)
       IN  /\ o # {} => Cardinality(o) = 1 /\ \A i \in o : workspaces_[i].id = e.anc
           /\ (e.anc = 0 \/ e.ancInternal) => o = {}

\* C2 (amended): every window of the model is in exactly one workspace, the
\* one constructed last before the traversal reaches the window node; window
\* nodes below an excluded workspace, and window nodes reached before any
\* workspace was constructed, are in no workspace.
C2_LastConstructed ==
  Rebuilt =>
    LET order == PreorderIds(Snapshot)
        at == [i \in ModelIdx |-> Pos(order, workspaces_[i].id)]
    IN  \A e \in WindowEntries(Snapshot) :
           LET o == Owners(e.node.id)
               before == {i \in ModelIdx : at[i] < Pos(order, e.node.id)}
           IN  /\ Cardinality(o) <= 1
               /\ \A i \in o : i \in before /\ \A k \in before : at[k] <= at[i]
               /\ e.underInternal => o = {}
               /\ before = {} => o = {}

\* a window inside its workspace is placed in it, and a window outside every
\* workspace is placed in the workspace met before it
C2_Witness ==
  /\ Rebuilt
  /\ \E e \in WindowEntries(Snapshot) :
        e.anc # 0 /\ \E i \in Owners(e.node.id) : workspaces_[i].id = e.anc
  /\ \E e \in WindowEntries(Snapshot) : e.anc = 0 /\ Owners(e.node.id) # {}

\* C3 (as claimed): after a rebuild no workspace's window sequence holds two
\* windows with the same resolved identity.
C3_NoDuplicateWindows ==
  Rebuilt =>
    \A i \in ModelIdx :
       \A a, b \in 1..Len(workspaces_[i].windows) :
          a # b => workspaces_[i].windows[a].resolved_app_id
                     # workspaces_[i].windows[b].resolved_app_id

\* the indices of the windows of w whose identity no earlier window of w has
FirstOccurrences(w) ==
  {a \in 1..Len(w.windows) :
     \A b \in 1..(a - 1) : w.windows[b].resolved_app_id # w.windows[a].resolved_app_id}

\* C3 (amended): after a rebuild the buttons packed into a workspace are those
\* of the first window of each resolved identity, in window order, so no two
\* packed buttons share an identity; the window sequence itself keeps every
\* window added, repeated identities included.
C3_NoDuplicateButtons ==
  Rebuilt =>
    \A i \in ModelIdx :
       LET w == workspaces_[i]
           first == FirstOccurrences(w)
       IN  /\ Len(w.content) = Cardinality(first)
           /\ \A k \in 1..Len(w.content) :
                \E a \in first :
                   /\ w.windows[a].id = w.content[k]
                   /\ Cardinality({b \in first : b < a}) = k - 1
           /\ \A e \in WindowEntries(Snapshot) :
                (\E k \in 1..Len(w.content) : w.content[k] = e.node.id)
                   => e.node.id \in WindowIds(w)

\* two windows with different app ids and one resolved identity: both are in
\* the window sequence, the first alone has its button packed
C3_Witness ==
  /\ Rebuilt
  /\ \E i \in ModelIdx :
       LET w == workspaces_[i]
       IN  /\ Len(w.windows) = 2
           /\ w.windows[1].props.app_id # w.windows[2].props.app_id
           /\ w.windows[1].resolved_app_id = w.windows[2].resolved_app_id
           /\ w.content = <<w.windows[1].id>>

\* C4: after a rebuild each workspace's focused flag, and its visible flag, is
\* the value the compositor reported for the workspace OR-ed with that flag of
\* every window the workspace holds.
C4_FlagsOrReduced ==
  Rebuilt =>
    \A i \in ModelIdx :
       LET w == workspaces_[i]
           reported == NodeOf(Snapshot, w.id)
           held == {NodeOf(Snapshot, id) : id \in WindowIds(w)}
       IN  /\ w.props.focused = (reported.focused \/ \E n \in held : n.focused)
           /\ w.props.visible = (reported.visible \/ \E n \in held : n.visible)
           /\ ("focused" \in w.classes) = w.props.focused

\* a workspace reported neither focused nor visible: a focused window makes it
\* focused and not visible, and in the same model or another an empty
\* workspace keeps what was reported
C4_Witness ==
  /\ Rebuilt
  /\ \E i \in ModelIdx :
       LET w == workspaces_[i]
           reported == NodeOf(Snapshot, w.id)
       IN  /\ ~reported.focused /\ ~reported.visible
           /\ w.props.focused /\ ~w.props.visible
           /\ Len(w.windows) > 0

\* C5: a workspace node whose title begins with "__i3" is never in the model
\* after a rebuild, and no window node of its subtree is in any workspace.
C5_InternalExcluded ==
  Rebuilt =>
    \A e \in Entries(Snapshot) :
       /\ IsInternalWsNode(e.node) => \A i \in ModelIdx : workspaces_[i].id # e.node.id
       /\ (IsWindowNode(e.node) /\ e.underInternal) => Owners(e.node.id) = {}

\* an internal workspace with windows follows a workspace that is in the model
C5_Witness ==
  /\ Rebuilt
  /\ \E e \in WindowEntries(Snapshot) :
       /\ e.underInternal
       /\ \E i \in ModelIdx :
            Pos(PreorderIds(Snapshot), workspaces_[i].id)
               < Pos(PreorderIds(Snapshot), e.node.id)

\* C20 (as claimed): after a rebuild a workspace's urgent flag is the value
\* the compositor reported OR-ed with the urgent flag of every window the
\* workspace holds, as its focused and visible flags are.
C20_UrgentOrReduced ==
  Rebuilt =>
    \A i \in ModelIdx :
       LET w == workspaces_[i]
           reported == NodeOf(Snapshot, w.id)
           held == {NodeOf(Snapshot, id) : id \in WindowIds(w)}
       IN  w.props.urgent = (reported.urgent \/ \E n \in held : n.urgent)

\* C20 (amended): after a rebuild a workspace's urgent flag is the value the
\* compositor reported for the workspace; the urgent flags of its windows do
\* not change it, and the "urgent" style class follows the reported value.
C20_UrgentAsReported ==
  Rebuilt =>
    \A i \in ModelIdx :
       LET w == workspaces_[i]
           reported == NodeOf(Snapshot, w.id)
       IN  /\ w.props.urgent = reported.urgent
           /\ ("urgent" \in w.classes) = reported.urgent

\* a workspace reported not urgent holds an urgent window and is not urgent,
\* while its focused flag was raised by a window
C20_Witness ==
  /\ Rebuilt
  /\ \E i \in ModelIdx :
       LET w == workspaces_[i]
           reported == NodeOf(Snapshot, w.id)
       IN  /\ ~reported.urgent /\ ~w.props.urgent /\ "urgent" \notin w.classes
           /\ \E k \in 1..Len(w.windows) : w.windows[k].props.urgent
           /\ ~reported.focused /\ w.props.focused

----------------------------------------------------------------------------
(* Properties of identity resolution: specification SpecResolve *)

StrategyNames == <<"cache", "direct", "bamf_env", "snap", "flatpak", "lowercase">>

\* what strategy k answers for props when it is run on its own
StrategyResult(k, props) ==
  CASE k = 1 -> lookup(wm_class_hash_, props.instance)
    [] k = 2 -> CreateById(registry, props.app_id \o DesktopSuffix)
    [] k = 3 -> get_app_info_from_bamf_env(registry, props.pid)
    [] k = 4 -> get_app_info_from_snap(registry, props.pid)
    [] k = 5 -> get_app_info_from_flatpak(registry, props.pid)
    [] OTHER -> CreateById(registry, ToLower(props.app_id) \o DesktopSuffix)

\* the instance-hint lookup is run for a non-empty instance only
Applicable(k, props) == k # 1 \/ props.instance # <<>>

Hits(props) == {k \in 1..6 : Applicable(k, props) /\ StrategyResult(k, props) # <<>>}
FirstHit(props) ==
  IF Hits(props) = {} THEN 7 ELSE CHOOSE k \in Hits(props) : \A j \in Hits(props) : k <= j

\* C6: identity resolution is total.  A constructed Window has a resolved
\* identity for every properties value and every combination of hits and
\* misses; when every strategy misses it is the app id followed by ".desktop".
C6_ResolutionTotal ==
  win # <<>> =>
    LET w == win[1].window
    IN  /\ w.resolved_app_id # NoIdentity
        /\ Hits(w.props) = {} => w.resolved_app_id = w.props.app_id \o DesktopSuffix
        /\ Hits(w.props) # {} =>
             w.resolved_app_id = StrategyResult(FirstHit(w.props), w.props)[1].id

\* empty app id, empty instance, pid 0, every strategy misses
C6_Witness ==
  /\ win # <<>>
  /\ win[1].window.props.app_id = <<>>
  /\ win[1].window.props.instance = <<>>
  /\ win[1].window.props.pid = 0
  /\ Hits(win[1].window.props) = {}
  /\ win[1].window.resolved_app_id = DesktopSuffix

\* C7: findInfo returns the result of the first strategy that succeeds in the
\* order cache, direct id, environment hint, sandbox label, confinement
\* manifest, lower-cased id, and consults no strategy after it; with a
\* non-empty instance that the cache holds, the cached descriptor is returned
\* and no other strategy is consulted.
C7_FirstSuccessWins ==
  win # <<>> =>
    LET props == win[1].window.props
        first == FirstHit(props)
        ran == {k \in 1..6 : Applicable(k, props) /\ k <= first}
    IN  /\ win[1].info = IF first = 7 THEN <<>> ELSE StrategyResult(first, props)
        /\ Len(win[1].consulted) = Cardinality(ran)
        /\ \A k \in ran :
             win[1].consulted[Cardinality({j \in ran : j <= k})] = StrategyNames[k]
        /\ (props.instance # <<>> /\ props.instance \in DOMAIN wm_class_hash_)
             => /\ win[1].info = <<wm_class_hash_[props.instance]>>
                /\ win[1].consulted = <<"cache">>

\* the cache holds the instance and the direct id match would succeed too,
\* with another descriptor: the cached one is returned
C7_Witness ==
  /\ win # <<>>
  /\ win[1].window.props.instance \in DOMAIN wm_class_hash_
  /\ win[1].window.props.instance # <<>>
  /\ StrategyResult(2, win[1].window.props) # <<>>
  /\ StrategyResult(2, win[1].window.props) # win[1].info
  /\ win[1].consulted = <<"cache">>

\* probe k (3 environment hint, 4 sandbox label, 5 confinement manifest)
\* meets a failure for pid: the file is missing or may not be read, or what
\* it holds is malformed (a hint that names no installed file, a label
\* without the mode part, a manifest that does not load)
ProbeFails(k, pid) ==
  LET p == ProcTable[pid]
  IN  CASE k = 3 -> \/ ~p.environ.ok
                    \/ \E i \in 1..Len(p.environ.data) :
                         /\ StartsWith(p.environ.data[i], ENV_PREFIX)
                         /\ \A j \in 1..(i - 1) : ~StartsWith(p.environ.data[j], ENV_PREFIX)
                         /\ \A n \in 1..Len(registry) :
                              ENV_PREFIX \o DesktopFilePath(registry[n]) # p.environ.data[i]
        [] k = 4 -> ~p.attr.ok \/ p.attr.data = AttrSnapNoMode
        [] OTHER -> p.flatpak.kind \in {"absent", "denied", "malformed"}

\* C19: every failure inside a process or filesystem probe yields a miss: the
\* probe returns no descriptor, the chain goes on to the next strategy, and
\* resolution completes with a descriptor or with the synthetic fallback.
C19_ProbeFailureIsMiss ==
  win # <<>> =>
    LET w == win[1].window
        ran == Range(win[1].consulted)
    IN  /\ \A k \in 3..5 :
             (ProbeFails(k, w.props.pid) /\ StrategyNames[k] \in ran) =>
                /\ StrategyResult(k, w.props) = <<>>
                /\ StrategyNames[k + 1] \in ran
        /\ w.resolved_app_id # NoIdentity
        /\ w.resolved_app_id = IF win[1].info # <<>> THEN win[1].info[1].id
                               ELSE w.props.app_id \o DesktopSuffix

\* the three probes fail (files unreadable, manifest access denied) and the
\* lower-cased id then finds a descriptor
C19_Witness ==
  /\ win # <<>>
  /\ \A k \in 3..5 : ProbeFails(k, win[1].window.props.pid)
  /\ ProcTable[win[1].window.props.pid].flatpak.kind = "denied"
  /\ win[1].consulted[Len(win[1].consulted)] = "lowercase"
  /\ win[1].info # <<>>

----------------------------------------------------------------------------
(* Properties of the cache: specification SpecCache *)

\* C8: a lookup that runs while load() rebuilds the map answers as the map
\* before the rebuild or as the map after it would; no lookup sees a cleared
\* or partly refilled map.
C8_LookupSeesWholeMap ==
  lastLookup # <<>> =>
    lastLookup[1].result \in {lastLookup[1].before, lastLookup[1].after}

AllKeys == Keys \cup {d.wm : d \in Descs}

\* C9: once the last rebuild has completed, lookup(k) finds a descriptor
\* exactly for the grouping keys of the registry snapshot that rebuild took
\* (nothing of the earlier map is left), and every change signal has caused
\* exactly one rebuild.
C9_LookupReflectsLastRebuild ==
  /\ loadsStarted + signalsPending = signalsFired + 1
  /\ loadPc = "idle" =>
       /\ \A k \in AllKeys :
            /\ lookup(wm_class_hash_, k) # <<>> <=> \E i \in 1..Len(loadAll) : loadAll[i].wm = k
            /\ \A d \in Descs :
                 lookup(wm_class_hash_, k) = <<d>>
                    => d.wm = k /\ \E i \in 1..Len(loadAll) : loadAll[i] = d
       /\ signalsPending = 0 => loadAll = registry

\* a rebuild caused by a change signal has completed, and a key the earlier
\* map held is not found any more
C9_Witness ==
  /\ loadPc = "idle"
  /\ signalsPending = 0
  /\ loadsStarted = signalsFired + 1
  /\ signalsFired > 0
  /\ \E k \in DOMAIN preMap : lookup(wm_class_hash_, k) = <<>>

\* the positions in the snapshot of the last rebuild of the descriptors with
\* grouping key k
WithKey(k) == {i \in 1..Len(loadAll) : loadAll[i].wm = k}

\* C15 (as claimed): when the snapshot of a rebuild holds several descriptors
\* with one grouping key, the rebuilt cache holds one entry for the key, the
\* descriptor that comes last in the enumeration.
C15_LastWriterWins ==
  loadPc = "idle" =>
    \A k \in AllKeys :
       WithKey(k) # {} =>
         lookup(wm_class_hash_, k)
           = <<loadAll[CHOOSE i \in WithKey(k) : \A j \in WithKey(k) : j <= i]>>

\* C15 (amended): when the snapshot of a rebuild holds several descriptors
\* with one grouping key, the rebuilt cache holds one entry for the key, the
\* descriptor that comes first in the enumeration.
C15_FirstWriterWins ==
  loadPc = "idle" =>
    \A k \in AllKeys :
       WithKey(k) # {} =>
         lookup(wm_class_hash_, k)
           = <<loadAll[CHOOSE i \in WithKey(k) : \A j \in WithKey(k) : i <= j]>>

\* a rebuild caused by a change signal has completed on a snapshot with two
\* descriptors of one non-empty key
C15_Witness ==
  /\ loadPc = "idle"
  /\ loadsStarted > 1
  /\ \E k \in AllKeys : k # <<>> /\ Cardinality(WithKey(k)) > 1

\* C16 (as claimed): a rebuild skips every descriptor whose grouping key is
\* empty: after a rebuild the cache has no entry under the empty key and
\* lookup of the empty string finds nothing.
C16_EmptyKeySkipped ==
  loadPc = "idle" => lookup(wm_class_hash_, <<>>) = <<>>

----------------------------------------------------------------------------
(* Properties of the controller: specification SpecSync *)

\* C10: a notification that arrives while a snapshot request is in flight, or
\* while a response is being applied, issues no further GET_TREE request: at
\* most one snapshot request is outstanding in every reachable state.
C10_AtMostOneOutstanding == requests + Len(responses) <= 1


\* a response is taken from the channel by the worker
Consumed == responses # <<>> /\ responses' = Tail(responses)

\* the response at the head of the channel answers a request after which a
\* further request was sent: the compositor answers requests in order, so a
\* later request is still outstanding or its answer is queued behind
Stale == requests + Len(responses) > 1

\* C11: a snapshot response is staged and applied only when it answers the
\* outstanding request; the answer to a stale request is discarded: it changes
\* neither the staged snapshot nor the model and requests no redisplay.
C11_StaleDiscarded ==
  [][(Consumed /\ Stale) => (payload_' = payload_ /\ workspaces_' = workspaces_ /\ dp' = dp)]_vars


----------------------------------------------------------------------------
(* Properties of the controller step by step: specification SpecLock *)

\* onEvent ran and getTree() sent no request
SendFailed == workerPc = "idle" /\ events' = events - 1 /\ requests' = requests

\* onCmd left without staging the response it was handling
ParseFailed == res # <<>> /\ ~res[1].ok /\ res' = <<>>

\* C12: when sending a snapshot request fails, or a response cannot be
\* parsed, the failure is logged, the staged snapshot and the model stay as
\* they were, no redisplay is requested, and the worker is ready for the next
\* notification (it is outside every handler and does not hold the mutex).
C12_FailureKeepsLastGood ==
  [][(SendFailed \/ ParseFailed) =>
       /\ logged'
       /\ payload_' = payload_ /\ workspaces_' = workspaces_ /\ dp' = dp
       /\ workerPc' = "idle" /\ mutex_' # "worker"]_vars

\* a response was rejected while a model built from an earlier one is kept,
\* and a notification waits for the worker
C12_Witness ==
  /\ logged
  /\ workerPc = "idle" /\ mutex_ = "free" /\ fgPc = "idle"
  /\ lastBuilt # <<>> /\ payload_ = lastBuilt[1] /\ workspaces_ # <<>>
  /\ events > 0


NoAccess == [reads |-> {}, writes |-> {}]

\* what the worker is reading and writing: inside onCmd's try block it
\* assigns payload_
WorkerAccess ==
  IF workerPc = "parse" THEN [reads |-> {}, writes |-> {"payload_"}] ELSE NoAccess

\* what the foreground thread is reading and writing: update() reads payload_
\* and rewrites workspaces_, cycleWorkspace reads workspaces_
FgAccess ==
  IF fgPc = "update" THEN [reads |-> {"payload_"}, writes |-> {"workspaces_"}]
  ELSE IF fgPc = "cycle" THEN [reads |-> {"workspaces_"}, writes |-> {}]
  ELSE NoAccess

\* C13 (as claimed): every access to the model and to the staged snapshot, by
\* the worker and by the foreground thread, is made while holding the mutex.
C13_AllAccessUnderMutex ==
  /\ WorkerAccess # NoAccess => mutex_ = "worker"
  /\ FgAccess # NoAccess => mutex_ = "fg"

\* C13 (amended): onCmd stages the snapshot and update() reads it and rebuilds
\* the model while holding the mutex; cycleWorkspace reads the model without
\* the mutex.  No read of the model or of the staged snapshot overlaps a
\* write to it: the model is written by update() alone, on the thread that
\* runs cycleWorkspace.
C13_NoOverlap ==
  /\ workerPc = "parse" => mutex_ = "worker"
  /\ fgPc = "update" => mutex_ = "fg"
  /\ fgPc = "cycle" => mutex_ # "fg"
  /\ WorkerAccess.writes \cap (FgAccess.reads \cup FgAccess.writes) = {}
  /\ FgAccess.writes \cap (WorkerAccess.reads \cup WorkerAccess.writes) = {}

\* cycleWorkspace is reading the model while the worker holds the mutex and
\* stages a snapshot
C13_Witness == fgPc = "cycle" /\ workerPc = "parse" /\ mutex_ = "worker"


\* the integer a decimal numeral, with or without a leading '-', stands for
RECURSIVE Numeral(_)
Numeral(str) ==
  IF str = <<>> THEN 0
  ELSE IF Head(str) = "-" THEN 0 - Numeral(Tail(str))
  ELSE 10 * Numeral(SubSeq(str, 1, Len(str) - 1))
         + (CHOOSE d \in 0..9 : Digit(d) = str[Len(str)])

\* payload is pre, a numeral for arg, then post
Frames(payload, pre, arg, post) ==
  /\ Len(payload) > Len(pre) + Len(post)
  /\ SubSeq(payload, 1, Len(pre)) = pre
  /\ SubSeq(payload, Len(payload) - Len(post) + 1, Len(payload)) = post
  /\ Numeral(SubSeq(payload, Len(pre) + 1, Len(payload) - Len(post))) = arg

\* C14: each call of activateWorkspace(num) sends exactly one command
\* "workspace number <num>" and each call of activateWindow(id) exactly one
\* command "[con_id=<id>] focus"; when the send fails nothing goes out and the
\* error is logged; either way the call returns and leaves the model and the
\* staged snapshot unchanged.
C14_OneCommandPerCall ==
  [][call' # <<>> =>
       LET c == call'[1]
       IN  /\ c.sent =>
                /\ Len(outbox') = Len(outbox) + 1
                /\ SubSeq(outbox', 1, Len(outbox)) = outbox
                /\ c.op = "activateWorkspace"
                     => Frames(outbox'[Len(outbox')], WS_CMD, c.arg, <<>>)
                /\ c.op = "activateWindow"
                     => Frames(outbox'[Len(outbox')], CON_CMD_PRE, c.arg, CON_CMD_POST)
           /\ ~c.sent => outbox' = outbox /\ c.logged
           /\ payload_' = payload_ /\ workspaces_' = workspaces_
           /\ fgPc' = "idle"]_vars

\* a workspace with a negative number was activated, the send failed and the
\* error was logged; the model is still displayed
C14_Witness ==
  /\ call # <<>>
  /\ call[1].op = "activateWorkspace" /\ ~call[1].sent /\ call[1].logged
  /\ workspaces_ # <<>>
  /\ call[1].arg < 0


\* C17: after update() completes, the model is the result of building the
\* snapshot that was staged when update() took the lock: nothing of an
\* earlier snapshot is left in it and it is never a mixture of two
\* snapshots, however the worker's staging and the rebuilds interleave.
C17_ModelOfOneSnapshot ==
  (fgPc # "update" /\ lastBuilt # <<>>) =>
    /\ workspaces_ \in UpdateOutcomes(lastBuilt[1], wm_class_hash_, registry)
    /\ \A i \in 1..Len(workspaces_) :
         /\ \E e \in Entries(lastBuilt[1]) : e.node.id = workspaces_[i].id
         /\ \A id \in WindowIds(workspaces_[i]) :
              \E e \in WindowEntries(lastBuilt[1]) : e.node.id = id

\* a model built from one snapshot is displayed after the worker has staged
\* another, and the worker is about to stage a third
C17_Witness ==
  /\ fgPc = "idle"
  /\ lastBuilt # <<>> /\ lastBuilt[1] # EmptyObject
  /\ workspaces_ # <<>>
  /\ payload_ # lastBuilt[1]
  /\ workerPc = "parse"


----------------------------------------------------------------------------
(* Cycling through the workspaces by scrolling: specification SpecLock *)

\* C21: cycleWorkspace(delta), delta in {1, -1}, with a focused workspace in
\* a model of n workspaces activates the workspace at position
\* (i + delta) mod n of workspaces_, i the position of the first focused
\* workspace and mod the non-negative remainder (forward from the last goes
\* to the first, backward from the first goes to the last); with no focused
\* workspace it sends no command.
C21_CycleWrapsAround ==
  [][/\ fgPc' = "cycle" =>
          /\ FocusedAt # {}
          /\ cyc'[1].i \in FocusedAt
          /\ \A j \in FocusedAt : cyc'[1].i <= j
     /\ (fgPc = "idle" /\ fgPc' = "idle" /\ FocusedAt = {} /\ call' = <<>>)
          => outbox' = outbox \/ outbox' = Tail(outbox)
     /\ (fgPc = "cycle" /\ fgPc' = "idle") =>
          LET n == Len(workspaces_)
              k == (cyc[1].i + cyc[1].delta) % n
          IN  /\ call' # <<>>
              /\ call'[1].op = "activateWorkspace"
              /\ call'[1].arg = workspaces_[k + 1].props.num]_vars

----------------------------------------------------------------------------
(* Progress of the controller: specification SpecLive *)

Quiet == events = 0 /\ requests = 0 /\ responses = <<>> /\ dp = 0

\* C18: under fair scheduling and without failures, every notification is
\* followed by a response being staged and by a rebuild of the model from a
\* snapshot taken no earlier than the notification, and the controller comes
\* back to a state with no request in flight.
C18_NotificationLeadsToRebuild ==
  /\ \A k \in 0..MaxChanges :
       (events > 0 /\ Version(swayTree) = k)
          ~> (Version(payload_) >= k /\ lastBuilt # <<>> /\ Version(lastBuilt[1]) >= k)
  /\ (events > 0) ~> Quiet

\* after the last change the model is built from the compositor's tree and
\* nothing is in flight
C18_Witness ==
  /\ Quiet
  /\ Version(swayTree) = MaxChanges
  /\ lastBuilt = <<swayTree>>
  /\ Len(workspaces_) = 1 /\ workspaces_[1].props.num = MaxChanges

=============================================================================
